---- MODULE Spec2Model ----
(***************************************************************************)
(* State-machine model of the identity and content-management backend of   *)
(* src/app.py: credential hashing, account directory, session, course      *)
(* catalog, admin panel and pre-enrollment intake.                         *)
(*                                                                         *)
(* Text (emails, passwords, salts, stored hashes) is a sequence of         *)
(* one-character strings, so that lower(), strip() and split() are         *)
(* computed character by character as Python computes them.  Names of      *)
(* people and courses are never inspected by the code beyond emptiness and *)
(* equality and are plain strings.                                         *)
(***************************************************************************)
EXTENDS Integers, Sequences, FiniteSets, TLC

VARIABLES users, session_user, courses, inscricoes, result, hasher,
          leads, smtp, pending, oids

vars == <<users, session_user, courses, inscricoes, result, hasher,
         leads, smtp, pending, oids>>

(***************************************************************************)
(* Bounds of the model.                                                    *)
(***************************************************************************)
MaxUsers == 2
MaxCourses == 2
MaxInscricoes == 1
MaxLeads == 1

(***************************************************************************)
(* Python string primitives.                                               *)
(***************************************************************************)
\* str.lower() on one character
LowerChar(c) ==
    CASE c = "A" -> "a"
      [] c = "B" -> "b"
      [] OTHER -> c

\* str.lower()
lower(s) == [i \in 1..Len(s) |-> LowerChar(s[i])]

\* the characters str.strip() removes
Whitespace == {" "}

RECURSIVE lstrip(_)
lstrip(s) ==
    IF s = <<>> THEN <<>>
    ELSE IF Head(s) \in Whitespace THEN lstrip(Tail(s)) ELSE s

RECURSIVE rstrip(_)
rstrip(s) ==
    IF s = <<>> THEN <<>>
    ELSE IF s[Len(s)] \in Whitespace THEN rstrip(SubSeq(s, 1, Len(s) - 1)) ELSE s

\* str.strip()
strip(s) == rstrip(lstrip(s))

\* str.split(sep) for a one-character separator: the list of the parts
\* between separators, always occurrences + 1 long
RECURSIVE split(_, _)
split(s, sep) ==
    IF s = <<>> THEN << <<>> >>
    ELSE LET rest == split(Tail(s), sep)
         IN  IF Head(s) = sep
             THEN << <<>> >> \o rest
             ELSE << <<Head(s)>> \o Head(rest) >> \o Tail(rest)

\* the elements of a list
Range(s) == {s[i] : i \in 1..Len(s)}

\* the characters of a text
Chars(s) == Range(s)

(***************************************************************************)
(* Credential hasher.                                                      *)
(***************************************************************************)
\* two hexadecimal digits of the UTF-8 byte of a character
HexOfChar(c) ==
    CASE c = "$" -> <<"2", "4">>
      [] c = "0" -> <<"3", "0">>
      [] c = "1" -> <<"3", "1">>
      [] c = "f" -> <<"6", "6">>
      [] c = "p" -> <<"7", "0">>
      [] c = "q" -> <<"7", "1">>
      [] OTHER -> <<"3", "f">>

\* hashlib.sha256(x.encode("utf-8")).hexdigest(): a string of hexadecimal
\* digits determined by x.  The digest is modelled as collision free: the
\* hexadecimal encoding of the hashed bytes.
RECURSIVE sha256_hexdigest(_)
sha256_hexdigest(x) ==
    IF x = <<>> THEN <<>> ELSE HexOfChar(Head(x)) \o sha256_hexdigest(Tail(x))

\* hash_password with the digest taken over the password alone
hash_password_unsalted(password, salt) ==
    salt \o <<"$">> \o sha256_hexdigest(password)

\* hash_password with the salt given: f"{salt}${hashed}"
hash_password(password, salt) ==
    salt \o <<"$">> \o sha256_hexdigest(salt \o password)

\* the values os.urandom(16).hex() is drawn from (hexadecimal digits only)
RandomSalts == {<<"0">>, <<"1", "f">>}

\* "salt, hashed = parts": unpacking any number of parts but two raises ValueError
unpack2(parts) == IF Len(parts) = 2 THEN "none" ELSE "ValueError"

\* verify_password without the except clause
verify_password_uncaught(password, stored_hash) ==
    LET parts == split(stored_hash, "$")
    IN  IF unpack2(parts) = "ValueError"
        THEN [raised |-> TRUE, value |-> FALSE]
        ELSE [raised |-> FALSE,
              value  |-> sha256_hexdigest(parts[1] \o password) = parts[2]]

\* verify_password: the outcome is whether an exception leaves the function
\* and, when none does, the returned bool
verify_password(password, stored_hash) ==
    LET parts == split(stored_hash, "$")
    IN  IF unpack2(parts) = "ValueError"
        THEN [raised |-> FALSE, value |-> FALSE]
        ELSE [raised |-> FALSE,
              value  |-> sha256_hexdigest(parts[1] \o password) = parts[2]]

(***************************************************************************)
(* Administrator allow-list.                                               *)
(***************************************************************************)
\* the configured ADMIN_EMAILS text: " B, "
ADMIN_EMAILS_CONFIG == <<" ", "B", ",", " ">>

\* ADMIN_EMAILS: the entries between commas, stripped and lowercased, the
\* blank ones dropped
ADMIN_EMAILS ==
    LET kept == SelectSeq(split(ADMIN_EMAILS_CONFIG, ","), LAMBDA e : strip(e) # <<>>)
    IN  [i \in 1..Len(kept) |-> lower(strip(kept[i]))]

\* is_admin answering for every non-empty email
is_admin_any(email) == email # <<>>

\* is_admin: False for an empty email, else membership of the lowercased
\* email in ADMIN_EMAILS
is_admin(email) ==
    IF email = <<>> THEN FALSE ELSE lower(email) \in Range(ADMIN_EMAILS)

(***************************************************************************)
(* Notification dispatcher.  smtp holds the SMTP_HOST and SMTP_PORT         *)
(* settings of the deployment as text.                                     *)
(***************************************************************************)
Digits == {"0", "1", "2", "3", "4", "5", "6", "7", "8", "9"}

\* int(text) raises ValueError unless the text, stripped, is a run of digits
int_raises(text) ==
    LET t == strip(text)
    IN  t = <<>> \/ \E i \in 1..Len(t) : t[i] \notin Digits

\* the characters an EmailMessage header refuses with ValueError
LineBreaks == {"\n", "\r"}

\* the "to" argument: one address (held as a list of one), or a list of
\* addresses
OneAddress(text) == [is_list |-> FALSE, value |-> <<text>>]

Addresses(list) == [is_list |-> TRUE, value |-> list]

\* the recipients send_email keeps: the non-empty values of "to"
recipients_of(to) ==
    IF to.is_list THEN SelectSeq(to.value, LAMBDA t : t # <<>>)
    ELSE IF to.value[1] # <<>> THEN <<to.value[1]>> ELSE <<>>

\* msg["Subject"] = subject or msg["To"] = ", ".join(recipients) raises
\* ValueError when the value holds a line break
header_raises(subject, recipients) ==
    \/ Chars(subject) \cap LineBreaks # {}
    \/ \E i \in 1..Len(recipients) : Chars(recipients[i]) \cap LineBreaks # {}

\* send_email: whether an exception leaves the function, and what became of
\* the message: nothing configured, nobody to send to, sent, or a failure
\* of the transport swallowed by "except Exception: pass".  linkUp tells
\* whether connecting, starttls, login and send_message all succeed.
send_email(to, subject, linkUp) ==
    IF smtp.host = <<>>
    THEN [to |-> to, raised |-> FALSE, outcome |-> "disabled"]
    ELSE IF int_raises(smtp.port)
    THEN [to |-> to, raised |-> TRUE, outcome |-> "ValueError"]
    ELSE IF recipients_of(to) = <<>>
    THEN [to |-> to, raised |-> FALSE, outcome |-> "norecipients"]
    ELSE IF header_raises(subject, recipients_of(to))
    THEN [to |-> to, raised |-> TRUE, outcome |-> "ValueError"]
    ELSE IF linkUp
    THEN [to |-> to, raised |-> FALSE, outcome |-> "sent"]
    ELSE [to |-> to, raised |-> FALSE, outcome |-> "swallowed"]

\* a call of send_email without the try block around it
best_effort_uncaught(sent) == sent

\* "try: send_email(...) except Exception: pass" around a call of send_email
best_effort(sent) == [sent EXCEPT !.raised = FALSE]

\* the subject of the notifications of register_user and page_contact: a
\* literal without line breaks
Subject == <<"s">>

\* the two notifications that follow an insert: one to the address given,
\* then, when ADMIN_EMAILS is not empty, one to the administrators; whether
\* an exception leaves the caller, and the attempts made
notifications(to, link1, link2) ==
    LET first == best_effort(send_email(OneAddress(to), Subject, link1))
    IN  IF first.raised
        THEN [raised |-> TRUE, mail |-> <<first>>]
        ELSE IF ADMIN_EMAILS = <<>>
        THEN [raised |-> FALSE, mail |-> <<first>>]
        ELSE LET second == best_effort(send_email(Addresses(ADMIN_EMAILS), Subject,
                                                  link2))
             IN  [raised |-> second.raised, mail |-> <<first, second>>]

\* whether the transport answers a connection: it is contacted only when a
\* host is configured
Links == IF smtp.host = <<>> THEN {TRUE} ELSE BOOLEAN

\* a deployment without SMTP_HOST: notifications are disabled
NoMail == [host |-> <<>>, port |-> <<"5", "8", "7">>]

\* the deployments the dispatcher is exercised with: no host, a host with
\* the default port, a host with a port that is not a number
MailConfigs ==
    { NoMail,
      [host |-> <<"h">>, port |-> <<"5", "8", "7">>],
      [host |-> <<"h">>, port |-> <<"x">>] }

(***************************************************************************)
(* Document store.  A collection is the sequence of its documents in       *)
(* insertion order; _id values are unique per collection.                  *)
(***************************************************************************)
\* a document matches a query {field: value, ...} when it holds each value
Matches(doc, query) == \A k \in DOMAIN query : doc[k] = query[k]

\* the query {} that every document matches
AnyDoc == <<>>

\* find_one(query): the first document that matches, or nothing
find_one(col, query) ==
    LET matching == SelectSeq(col, LAMBDA d : Matches(d, query))
    IN  IF matching = <<>> THEN <<>> ELSE <<Head(matching)>>

\* str(ObjectId)
str_id(id) == <<"oid", id>>

\* the _id insert_one gives a new document: larger than every _id in use
NewId(col) ==
    IF col = <<>> THEN 1
    ELSE 1 + CHOOSE m \in {d.id : d \in Range(col)} :
                 \A d \in Range(col) : d.id <= m

\* the _id insert_one gives a new course: an ObjectId is never issued twice,
\* also not after the document that had it is deleted
NewOid == oids + 1

\* a users document as register_user writes it
UserDoc(id, name, email, pwd_hash) ==
    [id |-> id, name |-> name, email |-> email,
     has_password_hash |-> TRUE, password_hash |-> pwd_hash, active |-> TRUE]

\* user.get("password_hash", "")
get_password_hash(user) ==
    IF user.has_password_hash THEN user.password_hash ELSE <<>>

(***************************************************************************)
(* Account directory.                                                      *)
(***************************************************************************)
\* the key made without trimming
normalize_untrimmed(email) == lower(email)

\* the email the directory is keyed by: email.lower().strip()
normalize(email) == strip(lower(email))

\* the outcome of an operation as the shell shows it: the operation, what
\* it was given (the email typed, the email and password typed, the course
\* typed or chosen; for a listing, the operation it follows), the message
\* displayed or the exception raised, whether an exception left the
\* handler, for a listing the documents listed with the _id each came
\* from (0: built in), for a login what login_user returned, and the
\* notifications attempted
Res(op, arg, msg, raised) ==
    [op |-> op, arg |-> arg, msg |-> msg, raised |-> raised,
     items |-> <<>>, src |-> <<>>, mail |-> <<>>]

\* what a listing records of the operation it follows, when that is a
\* change of the catalog
Prev ==
    IF result.op \in {"create", "setActive", "delete"}
    THEN [op |-> result.op, arg |-> result.arg, msg |-> result.msg]
    ELSE [op |-> "other", arg |-> <<>>, msg |-> ""]

\* register_user with the existence check on the email as typed
register_user_rawcheck(name, email, password, salt) ==
    LET found == find_one(users, [email |-> email])
    IN  IF found # <<>>
        THEN [msg |-> "DuplicateAccount", users |-> users]
        ELSE [msg   |-> "Registered",
              users |-> Append(users, UserDoc(NewId(users), name, normalize(email),
                                              hash_password(password, salt)))]

\* register_user up to the insert: the message returned and the users
\* collection afterwards
register_user(name, email, password, salt) ==
    LET found == find_one(users, [email |-> normalize(email)])
    IN  IF found # <<>>
        THEN [msg |-> "DuplicateAccount", users |-> users]
        ELSE [msg   |-> "Registered",
              users |-> Append(users, UserDoc(NewId(users), name, normalize(email),
                                              hash_password(password, salt)))]

\* login_user looking the email up among all users, active or not
login_user_any(email, password) ==
    LET found == find_one(users, [email |-> normalize(email)])
    IN  IF found = <<>>
        THEN [ok |-> FALSE, msg |-> "NotFound", raised |-> FALSE, user |-> <<>>]
        ELSE LET v == verify_password(password, get_password_hash(found[1]))
             IN  IF v.raised
                 THEN [ok |-> FALSE, msg |-> "ValueError", raised |-> TRUE, user |-> <<>>]
                 ELSE IF ~v.value
                 THEN [ok |-> FALSE, msg |-> "InvalidCredentials", raised |-> FALSE,
                       user |-> <<>>]
                 ELSE [ok |-> TRUE, msg |-> "LoggedIn", raised |-> FALSE, user |-> found]

\* login_user trying every active user filed under the email
login_user_anymatch(email, password) ==
    LET filed == SelectSeq(users, LAMBDA u : Matches(u, [email |-> normalize(email),
                                                         active |-> TRUE]))
        good == SelectSeq(filed, LAMBDA u :
                            verify_password(password, get_password_hash(u)).value)
    IN  IF filed = <<>>
        THEN [ok |-> FALSE, msg |-> "NotFound", raised |-> FALSE, user |-> <<>>]
        ELSE IF good = <<>>
        THEN [ok |-> FALSE, msg |-> "InvalidCredentials", raised |-> FALSE,
              user |-> <<>>]
        ELSE [ok |-> TRUE, msg |-> "LoggedIn", raised |-> FALSE,
              user |-> <<Head(good)>>]

\* login_user: (ok, message or user)
login_user(email, password) ==
    LET found == find_one(users, [email |-> normalize(email), active |-> TRUE])
    IN  IF found = <<>>
        THEN [ok |-> FALSE, msg |-> "NotFound", raised |-> FALSE, user |-> <<>>]
        ELSE LET v == verify_password(password, get_password_hash(found[1]))
             IN  IF v.raised
                 THEN [ok |-> FALSE, msg |-> "ValueError", raised |-> TRUE, user |-> <<>>]
                 ELSE IF ~v.value
                 THEN [ok |-> FALSE, msg |-> "InvalidCredentials", raised |-> FALSE,
                       user |-> <<>>]
                 ELSE [ok |-> TRUE, msg |-> "LoggedIn", raised |-> FALSE, user |-> found]

\* the session identity made of the whole record
Identity_whole(user) ==
    [name |-> user.name, email |-> user.email, _id |-> str_id(user.id),
     password_hash |-> get_password_hash(user)]

\* the session identity the shell keeps of a logged-in user
Identity(user) == [name |-> user.name, email |-> user.email, _id |-> str_id(user.id)]

(***************************************************************************)
(* Inputs the forms are exercised with.                                    *)
(***************************************************************************)
Names == {"", "Ana"}

EmailInputs == {<<>>, <<" ">>, <<"a">>, <<"A", " ">>, <<" ", "B">>}

Passwords == {<<"p">>, <<"q">>}

\* passwords and salts given to the hasher directly
HasherPasswords == {<<>>, <<"p">>, <<"q">>, <<"$">>, <<"p", "$">>}

HasherSalts == {<<>>, <<"0">>, <<"1", "f">>, <<"$">>, <<"0", "$">>, <<"$", "1", "$">>}

\* users documents the hasher is given the stored value of: well formed,
\* without any "$", with several "$", and without the password_hash field
StoredSamples ==
    {[UserDoc(1, "Ana", <<"a">>, h) EXCEPT !.has_password_hash = present] :
        h \in {<<>>, <<"0">>, <<"7", "0">>, <<"$">>, <<"0", "$", "3", "0">>,
               <<"$", "$">>, <<"0", "$", "3", "0", "$">>, <<"0", "$", "$", "3", "0">>},
        present \in BOOLEAN}

(***************************************************************************)
(* Initial states.                                                         *)
(***************************************************************************)
NoResult == Res("none", <<>>, "", FALSE)

\* the requests that can be inside register_user at once: each browser
\* session runs the script in a thread of its own
Requests == {1, 2}

\* a request that is not inside register_user
Idle == [pc |-> "idle", name |-> "", email |-> <<>>, password |-> <<>>]

NoRequests == [r \in Requests |-> Idle]

HasherIdle ==
    [origin |-> "none", password |-> <<>>, salt |-> <<>>, stored |-> <<>>,
     tried |-> FALSE, attempt |-> <<>>, verdict |-> [raised |-> FALSE, value |-> FALSE]]

\* the users collection the site starts on: empty, or holding one account
\* the operators of the store have deactivated, or one written without a
\* password_hash field
InitialDirectories ==
    { <<>>,
      << [UserDoc(1, "Ana", <<"a">>, hash_password(<<"p">>, <<"0">>))
             EXCEPT !.active = FALSE] >>,
      << [UserDoc(1, "Ana", <<"a">>, <<>>) EXCEPT !.has_password_hash = FALSE] >> }

InitAccounts ==
    /\ users \in InitialDirectories
    /\ session_user = <<>>
    /\ courses = <<>>
    /\ inscricoes = <<>>
    /\ result = NoResult
    /\ hasher = HasherIdle
    /\ leads = <<>>
    /\ smtp = NoMail
    /\ pending = NoRequests
    /\ oids = 0

(***************************************************************************)
(* sidebar_auth: the login form, the registration form and the logout      *)
(* button.  dbUp tells whether the store answers during the request; a     *)
(* pymongo call on an unreachable store raises.                            *)
(***************************************************************************)
\* the forms shown to a session that is logged in as well
forms_rendered_always(user) == TRUE

\* "if st.session_state["user"] is None": the login and the registration form
\* are rendered for an anonymous session only
forms_rendered(user) == user = <<>>

RegisterSubmit(name, email, password, password2) ==
    /\ forms_rendered(session_user)
    /\ IF password # password2
       THEN /\ result' = Res("register", email, "PasswordMismatch", FALSE)
            /\ users' = users
       ELSE IF name = "" \/ email = <<>> \/ password = <<>>
       THEN /\ result' = Res("register", email, "MissingFields", FALSE)
            /\ users' = users
       ELSE \E salt \in RandomSalts, dbUp \in BOOLEAN :
              IF ~dbUp
              THEN /\ result' = Res("register", email, "PyMongoError", TRUE)
                   /\ users' = users
              ELSE LET r == register_user(name, email, password, salt)
                   IN  /\ Len(r.users) <= MaxUsers
                       /\ users' = r.users
                       /\ IF r.msg = "DuplicateAccount"
                          THEN result' = Res("register", email, r.msg, FALSE)
                          ELSE \E link1, link2 \in Links :
                                 LET n == notifications(normalize(email), link1, link2)
                                 IN  result' =
                                       [Res("register", email,
                                            IF n.raised THEN "ValueError" ELSE r.msg,
                                            n.raised)
                                          EXCEPT !.mail = n.mail]
    /\ UNCHANGED <<session_user, courses, inscricoes, hasher,
                   leads, smtp, pending, oids>>

LoginSubmit(email, password, dbUp) ==
    /\ forms_rendered(session_user)
    /\ IF ~dbUp
       THEN /\ result' = Res("login", <<email, password>>, "PyMongoError", TRUE)
            /\ session_user' = session_user
       ELSE LET r == login_user(email, password)
            IN  /\ result' = [Res("login", <<email, password>>, r.msg, r.raised)
                                EXCEPT !.items = r.user]
                /\ session_user' = IF r.ok THEN <<Identity(r.user[1])>> ELSE session_user
    /\ UNCHANGED <<users, courses, inscricoes, hasher,
                   leads, smtp, pending, oids>>

Logout ==
    /\ session_user # <<>>
    /\ session_user' = <<>>
    /\ result' = Res("logout", <<>>, "LoggedOut", FALSE)
    /\ UNCHANGED <<users, courses, inscricoes, hasher,
                   leads, smtp, pending, oids>>

Register ==
    \E name \in Names, email \in EmailInputs, password \in Passwords,
       password2 \in Passwords :
        RegisterSubmit(name, email, password, password2)

Login ==
    \E email \in EmailInputs, password \in Passwords, dbUp \in BOOLEAN :
        LoginSubmit(email, password, dbUp)

NextAccounts == Register \/ Login \/ Logout

SpecAccounts == InitAccounts /\ [][NextAccounts]_vars

(***************************************************************************)
(* register_user run by several requests at once.  Nothing orders the      *)
(* find_one of one request against the insert_one of another, so the       *)
(* function is two steps: the existence check, then the hash, the insert   *)
(* and the notifications.                                                  *)
(***************************************************************************)
\* request r submits the form (validated) and runs the existence check
RegisterCheck(r, name, email, password, dbUp) ==
    /\ pending[r].pc = "idle"
    /\ name # "" /\ email # <<>> /\ password # <<>>
    /\ IF ~dbUp
       THEN /\ result' = Res("register", email, "PyMongoError", TRUE)
            /\ pending' = pending
       ELSE IF find_one(users, [email |-> normalize(email)]) # <<>>
       THEN /\ result' = Res("register", email, "DuplicateAccount", FALSE)
            /\ pending' = pending
       ELSE /\ result' = Res("registerCheck", email, "", FALSE)
            /\ pending' = [pending EXCEPT ![r] =
                              [pc |-> "checked", name |-> name, email |-> email,
                               password |-> password]]
    /\ UNCHANGED <<users, session_user, courses, inscricoes, hasher,
                   leads, smtp, oids>>

\* request r, past the check, hashes the password, inserts and notifies
RegisterInsert(r, salt, dbUp) ==
    /\ pending[r].pc = "checked"
    /\ pending' = [pending EXCEPT ![r] = Idle]
    /\ LET q == pending[r]
       IN  IF ~dbUp
           THEN /\ result' = Res("register", q.email, "PyMongoError", TRUE)
                /\ users' = users
           ELSE /\ Len(users) < MaxUsers
                /\ users' = Append(users,
                                   UserDoc(NewId(users), q.name, normalize(q.email),
                                           hash_password(q.password, salt)))
                /\ \E link1, link2 \in Links :
                     LET n == notifications(normalize(q.email), link1, link2)
                     IN  result' = [Res("register", q.email,
                                        IF n.raised THEN "ValueError" ELSE "Registered",
                                        n.raised)
                                      EXCEPT !.mail = n.mail]
    /\ UNCHANGED <<session_user, courses, inscricoes, hasher,
                   leads, smtp, oids>>

InitRace ==
    /\ users = <<>>
    /\ session_user = <<>>
    /\ courses = <<>>
    /\ inscricoes = <<>>
    /\ result = NoResult
    /\ hasher = HasherIdle
    /\ leads = <<>>
    /\ smtp = NoMail
    /\ pending = NoRequests
    /\ oids = 0

\* the registrations the race is exercised with: the same email typed two
\* ways, with either password
RaceEmails == {<<"a">>, <<"A", " ">>}

RaceCheck ==
    \E r \in Requests, email \in RaceEmails, password \in Passwords, dbUp \in BOOLEAN :
        RegisterCheck(r, "Ana", email, password, dbUp)

RaceInsert ==
    \E r \in Requests, salt \in RandomSalts, dbUp \in BOOLEAN :
        RegisterInsert(r, salt, dbUp)

RaceLogin ==
    \E email \in RaceEmails, password \in Passwords : LoginSubmit(email, password, TRUE)

NextRace == RaceCheck \/ RaceInsert \/ RaceLogin \/ Logout

SpecRace == InitRace /\ [][NextRace]_vars

(***************************************************************************)
(* page_contact with the contact form submitted.  Of the fields of a lead  *)
(* the model keeps nome and email; empresa, tipo_interesse and mensagem    *)
(* are written the same way.                                               *)
(***************************************************************************)
\* the leads document
LeadDoc(nome, email) == [nome |-> nome, email |-> email]

LeadSubmit(nome, email, insertUp) ==
    /\ IF ~insertUp
       THEN /\ result' = Res("submitLead", email, "PyMongoError", TRUE)
            /\ leads' = leads
       ELSE /\ Len(leads) < MaxLeads
            /\ leads' = Append(leads, LeadDoc(nome, email))
            /\ \E link1, link2 \in Links :
                 LET n == notifications(email, link1, link2)
                 IN  result' = [Res("submitLead", email,
                                    IF n.raised THEN "ValueError" ELSE "LeadSaved",
                                    n.raised)
                                  EXCEPT !.mail = n.mail]
    /\ UNCHANGED <<users, session_user, courses, inscricoes, hasher,
                   smtp, pending, oids>>

\* send_email called on its own
SendStep(to, subject, linkUp) ==
    /\ LET sent == send_email(to, subject, linkUp)
       IN  result' = [Res("send", subject, sent.outcome, sent.raised)
                        EXCEPT !.mail = <<sent>>]
    /\ UNCHANGED <<users, session_user, courses, inscricoes, hasher,
                   leads, smtp, pending, oids>>

\* the "to" arguments the dispatcher is given: an address, no address, a
\* list of addresses some or all of them empty, an address with a line
\* break inside
Tos ==
    { OneAddress(<<"a">>), OneAddress(<<>>), OneAddress(<<"a", "\n", "b">>),
      Addresses(<<>>), Addresses(<< <<>>, <<>> >>), Addresses(<< <<>>, <<"b">> >>),
      Addresses(ADMIN_EMAILS) }

\* the subjects the dispatcher is given: empty, plain, with a line break
Subjects == {<<>>, Subject, <<"s", "\n">>}

InitNotify ==
    /\ users = <<>>
    /\ session_user = <<>>
    /\ courses = <<>>
    /\ inscricoes = <<>>
    /\ result = NoResult
    /\ hasher = HasherIdle
    /\ leads = <<>>
    /\ smtp \in MailConfigs
    /\ pending = NoRequests
    /\ oids = 0

\* the forms the notifications are exercised with
SignUp ==
    \E email \in {<<"a">>, <<" ", "B">>} :
        RegisterSubmit("Ana", email, <<"p">>, <<"p">>)

Lead ==
    \E email \in {<<>>, <<"a">>}, insertUp \in BOOLEAN :
        LeadSubmit("Ana", email, insertUp)

Send ==
    \E to \in Tos, subject \in Subjects, linkUp \in Links :
        SendStep(to, subject, linkUp)

NextNotify == SignUp \/ Lead \/ Send

SpecNotify == InitNotify /\ [][NextNotify]_vars

(***************************************************************************)
(* The credential hasher on its own: hash a password with a given salt,    *)
(* or take the stored value of a users document, then verify a password    *)
(* against it.                                                             *)
(***************************************************************************)
InitHasher ==
    /\ users = <<>>
    /\ session_user = <<>>
    /\ courses = <<>>
    /\ inscricoes = <<>>
    /\ result = NoResult
    /\ hasher = HasherIdle
    /\ leads = <<>>
    /\ smtp = NoMail
    /\ pending = NoRequests
    /\ oids = 0

HashStep(password, salt) ==
    /\ hasher' = [HasherIdle EXCEPT !.origin = "hash", !.password = password,
                                    !.salt = salt,
                                    !.stored = hash_password(password, salt)]
    /\ UNCHANGED <<users, session_user, courses, inscricoes, result,
                   leads, smtp, pending, oids>>

LoadStep(user) ==
    /\ hasher' = [HasherIdle EXCEPT !.origin = "stored",
                                    !.stored = get_password_hash(user)]
    /\ UNCHANGED <<users, session_user, courses, inscricoes, result,
                   leads, smtp, pending, oids>>

VerifyStep(password) ==
    /\ hasher.origin # "none"
    /\ hasher' = [hasher EXCEPT !.tried = TRUE, !.attempt = password,
                                !.verdict = verify_password(password, hasher.stored)]
    /\ UNCHANGED <<users, session_user, courses, inscricoes, result,
                   leads, smtp, pending, oids>>

Hash == \E password \in HasherPasswords, salt \in HasherSalts : HashStep(password, salt)

Load == \E user \in StoredSamples : LoadStep(user)

Verify == \E password \in HasherPasswords : VerifyStep(password)

NextHasher == Hash \/ Load \/ Verify

SpecHasher == InitHasher /\ [][NextHasher]_vars

(***************************************************************************)
(* Course catalog.  Of the fields of a course document the model keeps     *)
(* nome, tag, preco, ordem and ativo; categoria, nivel, descricao,         *)
(* carga_horaria, imagem_url, destaque and proxima_turma are written and   *)
(* read back the same way as tag and preco.                                *)
(***************************************************************************)
\* the text fields the new-course form is exercised with: the name left
\* empty, only the name given, and name, tag and price given
CourseForms ==
    { [nome |-> "",  tag |-> "T", preco |-> "9"],
      [nome |-> "X", tag |-> "",  preco |-> ""],
      [nome |-> "X", tag |-> "T", preco |-> "9"] }

\* the values of the "Ordem de exibicao" input the form is exercised with
Ordens == {0, 1}

\* the inputs of the new-course form as typed (id 0: not yet a document)
Typed(form, ordem, ativo) ==
    [id |-> 0, nome |-> form.nome, tag |-> form.tag, preco |-> form.preco,
     ordem |-> ordem, ativo |-> ativo]

\* the new-course document with the course stored as inactive
CourseDoc_inactive(id, typed) == [typed EXCEPT !.id = id, !.ativo = FALSE]

\* the document the new-course form inserts: doc = {...} of the inputs
CourseDoc(id, typed) == [typed EXCEPT !.id = id]

\* find(filter).sort("ordem", 1): the matching documents in ascending ordem;
\* the store may return documents of equal ordem in any order
FindSorted(col, query) ==
    LET m == SelectSeq(col, LAMBDA d : Matches(d, query))
        n == Len(m)
    IN  { [i \in 1..n |-> m[p[i]]] :
            p \in {q \in Permutations(1..n) :
                     \A i \in 1..(n - 1) : m[q[i]].ordem <= m[q[i + 1]].ordem} }

\* the dict get_courses makes of a document
CourseView(c) == [nome |-> c.nome, tag |-> c.tag, preco |-> c.preco]

\* the built-in list get_courses falls back to
SEED_COURSES ==
    << [nome |-> "Formacao em Python para Programacao", tag |-> "Python",
        preco |-> "997,00"],
       [nome |-> "Ciencia de Dados Aplicada a Negocios", tag |-> "Data Science",
        preco |-> "1.297,00"],
       [nome |-> "Inteligencia Artificial e Machine Learning",
        tag |-> "Machine Learning", preco |-> "1.497,00"],
       [nome |-> "Visualizacao de Dados e Storytelling", tag |-> "Data Viz",
        preco |-> "897,00"],
       [nome |-> "Estrutura de Dados e Algoritmos", tag |-> "Algoritmos",
        preco |-> "997,00"],
       [nome |-> "Banco de Dados Relacionais e NoSQL", tag |-> "Databases",
        preco |-> "1.097,00"] >>

\* get_courses without the fallback
get_courses_nofallback(cursos_db, queryUp) ==
    LET found == IF queryUp THEN cursos_db ELSE <<>>
    IN  [msg   |-> IF ~queryUp THEN "SeedOnError"
                   ELSE IF found = <<>> THEN "Seed" ELSE "Listed",
         items |-> [i \in 1..Len(found) |-> CourseView(found[i])],
         src   |-> [i \in 1..Len(found) |-> found[i].id]]

\* get_courses, given what find({"ativo": True}).sort("ordem", 1) returns and
\* whether the query raises (caught: the list is then empty): the list
\* returned, the _id each entry was made from (0: built in), and which
\* branch returned it
get_courses(cursos_db, queryUp) ==
    LET found == IF queryUp THEN cursos_db ELSE <<>>
    IN  IF found # <<>>
        THEN [msg   |-> "Listed",
              items |-> [i \in 1..Len(found) |-> CourseView(found[i])],
              src   |-> [i \in 1..Len(found) |-> found[i].id]]
        ELSE [msg   |-> IF queryUp THEN "Seed" ELSE "SeedOnError",
              items |-> SEED_COURSES,
              src   |-> [i \in 1..Len(SEED_COURSES) |-> 0]]

\* the documents find({"ativo": True}).sort("ordem", 1) may return
ActiveSorted == FindSorted(courses, [ativo |-> TRUE])

\* the documents find().sort("ordem", 1) may return
AllSorted == FindSorted(courses, AnyDoc)

\* a row of the admin table
AdminRow(c) ==
    [nome |-> c.nome, tag |-> c.tag, preco |-> c.preco, ordem |-> c.ordem,
     ativo |-> c.ativo]

\* the label of a course in the admin selectbox: f"{nome} ({tag})"
Label(c) == <<c.nome, " (", c.tag, ")">>

\* mapa_label_id.get(escolha): the dict built from zip(labels, cursos_db)
\* keeps, for a label, the _id of the last document carrying it
mapa_label_id(cursos_db, escolha) ==
    LET carrying == {i \in 1..Len(cursos_db) : Label(cursos_db[i]) = escolha}
        last == CHOOSE i \in carrying : \A j \in carrying : j <= i
    IN  cursos_db[last].id

\* update_one that matches no document
update_ativo_nomatch(col, id, value) == col

\* update_one({"_id": id}, {"$set": {"ativo": value}})
update_ativo(col, id, value) ==
    [i \in 1..Len(col) |-> IF col[i].id = id THEN [col[i] EXCEPT !.ativo = value]
                           ELSE col[i]]

\* delete_one that hides the document instead of removing it
delete_one_soft(col, id) ==
    [i \in 1..Len(col) |-> IF col[i].id = id THEN [col[i] EXCEPT !.ativo = FALSE]
                           ELSE col[i]]

\* delete_one({"_id": id})
delete_one(col, id) == SelectSeq(col, LAMBDA c : c.id # id)

\* "if not nome" never taken
nome_missing_never(nome) == FALSE

\* "if not nome" of the new-course form
nome_missing(nome) == nome = ""

\* main offers the "Ir para o painel Admin" button
main_offers_admin(user) == user # <<>> /\ is_admin(user[1].email)

\* the two checks page_admin starts with
page_admin_gate(user) ==
    IF user = <<>> THEN "Unauthorized"
    ELSE IF ~is_admin(user[1].email) THEN "Unauthorized"
    ELSE "ok"

\* the admin panel is reached and lets the session in
AdminAdmitted == main_offers_admin(session_user) /\ page_admin_gate(session_user) = "ok"

(***************************************************************************)
(* page_courses rendered with no button pressed: the public listing.       *)
(***************************************************************************)
ListActive(queryUp) ==
    /\ \E cursos_db \in ActiveSorted :
         LET r == get_courses(cursos_db, queryUp)
         IN  result' = [Res("listActive", Prev, r.msg, FALSE)
                           EXCEPT !.items = r.items, !.src = r.src]
    /\ UNCHANGED <<users, session_user, courses, inscricoes, hasher,
                   leads, smtp, pending, oids>>

(***************************************************************************)
(* page_admin, reached through the button of main.  Each action is one run *)
(* of the page with one widget triggered.                                  *)
(***************************************************************************)
\* the "Gerenciar cursos" tab with no button pressed
AdminList ==
    /\ IF ~AdminAdmitted
       THEN result' = Res("listAll", Prev, "Unauthorized", FALSE)
       ELSE \E dbUp \in BOOLEAN :
              IF ~dbUp
              THEN result' = Res("listAll", Prev, "PyMongoError", TRUE)
              ELSE \E cursos_db \in AllSorted :
                     result' = [Res("listAll", Prev,
                                    IF cursos_db = <<>> THEN "NoCourses" ELSE "Listed",
                                    FALSE)
                                  EXCEPT !.items = [i \in 1..Len(cursos_db) |->
                                                       AdminRow(cursos_db[i])],
                                         !.src = [i \in 1..Len(cursos_db) |->
                                                     cursos_db[i].id]]
    /\ UNCHANGED <<users, session_user, courses, inscricoes, hasher,
                   leads, smtp, pending, oids>>

\* the new-course form submitted with the inputs given
AdminCreateSubmit(form, ordem, ativo, dbUp) ==
    /\ LET typed == Typed(form, ordem, ativo)
       IN
       IF ~AdminAdmitted
       THEN /\ result' = Res("create", <<>>, "Unauthorized", FALSE)
            /\ courses' = courses
            /\ oids' = oids
       ELSE IF nome_missing(form.nome)
       THEN \* the error is shown and the page goes on to the listing
            /\ courses' = courses
            /\ oids' = oids
            /\ IF ~dbUp
               THEN result' = Res("create", typed, "ValidationError", TRUE)
               ELSE \E cursos_db \in AllSorted :
                      result' = [Res("create", typed, "ValidationError", FALSE)
                                   EXCEPT !.items = [i \in 1..Len(cursos_db) |->
                                                        AdminRow(cursos_db[i])],
                                          !.src = [i \in 1..Len(cursos_db) |->
                                                      cursos_db[i].id]]
       ELSE IF ~dbUp
       THEN /\ result' = Res("create", typed, "PyMongoError", TRUE)
            /\ courses' = courses
            /\ oids' = oids
       ELSE LET doc == CourseDoc(NewOid, typed)
            IN  /\ doc.id <= MaxCourses
                /\ courses' = Append(courses, doc)
                /\ oids' = doc.id
                /\ result' = Res("create", [typed EXCEPT !.id = doc.id],
                                 "Created", FALSE)
    /\ UNCHANGED <<users, session_user, inscricoes, hasher,
                   leads, smtp, pending>>

\* the new-course form submitted; a session that is refused is shown no
\* form, and no input is read
AdminCreate ==
    IF AdminAdmitted
    THEN \E form \in CourseForms, ordem \in Ordens, ativo \in BOOLEAN,
            dbUp \in BOOLEAN :
           AdminCreateSubmit(form, ordem, ativo, dbUp)
    ELSE AdminCreateSubmit([nome |-> "", tag |-> "", preco |-> ""], 0, TRUE, TRUE)

\* "Ativar curso" (value TRUE) or "Desativar curso" (value FALSE) pressed
\* with an entry of the selectbox chosen
AdminSetActive(value) ==
    /\ IF ~AdminAdmitted
       THEN /\ result' = Res("setActive", <<0, 0, value>>, "Unauthorized", FALSE)
            /\ courses' = courses
       ELSE \E dbUp \in BOOLEAN :
            IF ~dbUp
            THEN /\ result' = Res("setActive", <<0, 0, value>>, "PyMongoError", TRUE)
                 /\ courses' = courses
            ELSE \E cursos_db \in AllSorted :
                   IF cursos_db = <<>>
                   THEN /\ result' = Res("setActive", <<0, 0, value>>, "NoCourses", FALSE)
                        /\ courses' = courses
                   ELSE \E k \in 1..Len(cursos_db) :
                        LET curso_id == mapa_label_id(cursos_db, Label(cursos_db[k]))
                        IN  /\ courses' = update_ativo(courses, curso_id, value)
                            /\ result' = Res("setActive",
                                             <<cursos_db[k].id, curso_id, value>>,
                                             "Updated", FALSE)
    /\ UNCHANGED <<users, session_user, inscricoes, hasher,
                   leads, smtp, pending, oids>>

\* "Excluir curso" pressed with an entry of the selectbox chosen
AdminDelete ==
    /\ IF ~AdminAdmitted
       THEN /\ result' = Res("delete", <<0, 0>>, "Unauthorized", FALSE)
            /\ courses' = courses
       ELSE \E dbUp \in BOOLEAN :
            IF ~dbUp
            THEN /\ result' = Res("delete", <<0, 0>>, "PyMongoError", TRUE)
                 /\ courses' = courses
            ELSE \E cursos_db \in AllSorted :
                   IF cursos_db = <<>>
                   THEN /\ result' = Res("delete", <<0, 0>>, "NoCourses", FALSE)
                        /\ courses' = courses
                   ELSE \E k \in 1..Len(cursos_db) :
                        LET curso_id == mapa_label_id(cursos_db, Label(cursos_db[k]))
                        IN  /\ courses' = delete_one(courses, curso_id)
                            /\ result' = Res("delete", <<cursos_db[k].id, curso_id>>,
                                             "Deleted", FALSE)
    /\ UNCHANGED <<users, session_user, inscricoes, hasher,
                   leads, smtp, pending, oids>>

\* two registered accounts: Ana, and Bia whose email is on the allow-list
RegisteredDirectory ==
    << UserDoc(1, "Ana", <<"a">>, hash_password(<<"p">>, <<"0">>)),
       UserDoc(2, "Bia", <<"b">>, hash_password(<<"q">>, <<"1", "f">>)) >>

InitCatalog ==
    /\ users = RegisteredDirectory
    /\ session_user = <<>>
    /\ courses = <<>>
    /\ inscricoes = <<>>
    /\ result = NoResult
    /\ hasher = HasherIdle
    /\ leads = <<>>
    /\ smtp = NoMail
    /\ pending = NoRequests
    /\ oids = 0

PublicListing == \E queryUp \in BOOLEAN : ListActive(queryUp)

\* the logins the catalog and the intake are exercised with: Ana, Bia (her
\* email typed with a blank and in capitals), and Ana with a wrong password
Credentials ==
    { << <<"a">>, <<"p">> >>, << <<" ", "B">>, <<"q">> >>, << <<"a">>, <<"q">> >> }

LoginAs == \E c \in Credentials : LoginSubmit(c[1], c[2], TRUE)

SetActive == \E value \in BOOLEAN : AdminSetActive(value)

NextCatalog ==
    LoginAs \/ Logout \/ PublicListing \/ AdminList \/ AdminCreate \/ SetActive
    \/ AdminDelete

SpecCatalog == InitCatalog /\ [][NextCatalog]_vars

(***************************************************************************)
(* page_courses with the "Inscrever me" button of entry idx pressed.       *)
(***************************************************************************)
\* the inscricoes document with the name and the email exchanged
InscricaoDoc_swapped(user, curso) ==
    [user_id |-> user._id, user_name |-> user.email, user_email |-> user.name,
     curso_nome |-> curso.nome, curso_tag |-> curso.tag, curso_preco |-> curso.preco]

\* the inscricoes document: the session identity and the snapshot of the
\* course as listed
InscricaoDoc(user, curso) ==
    [user_id |-> user._id, user_name |-> user.name, user_email |-> user.email,
     curso_nome |-> curso.nome, curso_tag |-> curso.tag, curso_preco |-> curso.preco]

\* the selections of the tag multiselect the page is exercised with: none,
\* or one of the tags on offer
FilterChoices(cursos) ==
    {{}} \cup {{c.tag} : c \in {d \in Range(cursos) : d.tag # ""}}

EnrollClick(idx, queryUp, insertUp) ==
    /\ \E cursos_db \in ActiveSorted :
         LET cursos == get_courses(cursos_db, queryUp).items
         IN  /\ idx \in 1..Len(cursos)
             /\ \E filtro_tag \in FilterChoices(cursos) :
                  filtro_tag = {} \/ cursos[idx].tag \in filtro_tag
             /\ IF session_user = <<>>
                THEN /\ result' = Res("submitEnrollment", cursos[idx],
                                      "Unauthenticated", FALSE)
                     /\ inscricoes' = inscricoes
                ELSE IF ~insertUp
                THEN /\ result' = Res("submitEnrollment", cursos[idx],
                                      "PyMongoError", TRUE)
                     /\ inscricoes' = inscricoes
                ELSE /\ Len(inscricoes) < MaxInscricoes
                     /\ inscricoes' =
                           Append(inscricoes, InscricaoDoc(session_user[1], cursos[idx]))
                     /\ result' = Res("submitEnrollment", cursos[idx], "Enrolled", FALSE)
    /\ UNCHANGED <<users, session_user, courses, hasher,
                   leads, smtp, pending, oids>>

\* catalogs the intake is exercised on: none, one active course, one
\* inactive course, two active courses listed in the reverse of their
\* insertion order
InitialCatalogs ==
    { <<>>,
      << CourseDoc(1, Typed([nome |-> "X", tag |-> "T", preco |-> "9"], 0, TRUE)) >>,
      << CourseDoc(1, Typed([nome |-> "X", tag |-> "T", preco |-> "9"], 0, FALSE)) >>,
      << CourseDoc(1, Typed([nome |-> "X", tag |-> "T", preco |-> "9"], 1, TRUE)),
         CourseDoc(2, Typed([nome |-> "X", tag |-> "", preco |-> ""], 0, TRUE)) >> }

InitIntake ==
    /\ users = RegisteredDirectory
    /\ session_user = <<>>
    /\ courses \in InitialCatalogs
    /\ inscricoes = <<>>
    /\ result = NoResult
    /\ hasher = HasherIdle
    /\ leads = <<>>
    /\ smtp = NoMail
    /\ pending = NoRequests
    /\ oids = Len(courses)

Enroll ==
    \E idx \in 1..Len(SEED_COURSES), queryUp \in BOOLEAN, insertUp \in BOOLEAN :
        EnrollClick(idx, queryUp, insertUp)

NextIntake == LoginAs \/ Logout \/ PublicListing \/ Enroll

SpecIntake == InitIntake /\ [][NextIntake]_vars

(***************************************************************************)
(* The catalog managed while pre-enrollments come in: the public page and  *)
(* the admin panel on one store.                                           *)
(***************************************************************************)
\* the administrator is logged in, the catalog holds one active course and
\* nobody has enrolled yet
InitSnapshot ==
    /\ users = RegisteredDirectory
    /\ session_user = <<Identity(RegisteredDirectory[2])>>
    /\ courses = << CourseDoc(1, Typed([nome |-> "X", tag |-> "T", preco |-> "9"],
                                       0, TRUE)) >>
    /\ inscricoes = <<>>
    /\ result = NoResult
    /\ hasher = HasherIdle
    /\ leads = <<>>
    /\ smtp = NoMail
    /\ pending = NoRequests
    /\ oids = Len(courses)

\* "Inscrever me" pressed on the first entry of the listing
EnrollFirst == \E insertUp \in BOOLEAN : EnrollClick(1, TRUE, insertUp)

\* the new-course form submitted with a name and a tag, the rest as offered
CreateTagged ==
    \E dbUp \in BOOLEAN :
        AdminCreateSubmit([nome |-> "X", tag |-> "T", preco |-> "9"], 0, TRUE, dbUp)

NextSnapshot ==
    PublicListing \/ EnrollFirst \/ AdminList \/ CreateTagged \/ SetActive
    \/ AdminDelete

SpecSnapshot == InitSnapshot /\ [][NextSnapshot]_vars

(***************************************************************************)
(* An account from registration to login, with the rest of the site in     *)
(* use: registrations of one email (the administrator's, typed two ways)   *)
(* that may overlap, logins, leads, pre-enrollments and new courses.       *)
(***************************************************************************)
RoundTripEmails == {<<"b">>, <<" ", "B">>}

TripCheck ==
    \E r \in Requests, email \in RoundTripEmails, password \in Passwords :
        RegisterCheck(r, "Bia", email, password, TRUE)

TripInsert == \E r \in Requests, salt \in RandomSalts : RegisterInsert(r, salt, TRUE)

TripLogin ==
    \E email \in RoundTripEmails, password \in Passwords :
        LoginSubmit(email, password, TRUE)

TripLead == LeadSubmit("Bia", <<"b">>, TRUE)

NextRoundTrip ==
    TripCheck \/ TripInsert \/ TripLogin \/ Logout \/ TripLead \/ EnrollFirst
    \/ CreateTagged

SpecRoundTrip == InitRace /\ [][NextRoundTrip]_vars

(***************************************************************************)
(* Properties of the account directory (SpecAccounts).                     *)
(***************************************************************************)
\* the users documents filed under the email an input normalizes to
UsersWithEmail(email) == {i \in 1..Len(users) : users[i].email = normalize(email)}

C1_UniqueEmails ==
    \A i, j \in 1..Len(users) :
        normalize(users[i].email) = normalize(users[j].email) => i = j

C1_RegisterStep ==
    (result'.op = "register" /\ result'.msg \in {"Registered", "DuplicateAccount"})
    => IF UsersWithEmail(result'.arg) # {}
       THEN result'.msg = "DuplicateAccount" /\ users' = users
       ELSE /\ result'.msg = "Registered"
            /\ Len(users') = Len(users) + 1
            /\ SubSeq(users', 1, Len(users)) = users
            /\ users'[Len(users')].email = normalize(result'.arg)

\* C1: with one request at a time, a registration whose email equals, after
\* lowercasing and trimming, the email of a stored user is refused as
\* DuplicateAccount and inserts nothing, one whose email is new succeeds and
\* inserts one record, and the users collection never holds two records
\* with the same normalized email.
C1_DuplicateRefused == []C1_UniqueEmails /\ [][C1_RegisterStep]_vars

\* "ana" registered through the form, then "ANA " refused
C1_Witness ==
    /\ Len(users) = 1
    /\ users[1].active /\ users[1].has_password_hash
    /\ users[1].email = <<"a">>
    /\ result.op = "register" /\ result.arg = <<"A", " ">>
    /\ result.msg = "DuplicateAccount"

\* the password is not the one any stored hash of the user was made from
WrongPassword(u, password) ==
    \/ ~u.has_password_hash
    \/ \A salt \in RandomSalts : u.password_hash # hash_password(password, salt)

C2_LoginStep ==
    (result'.op = "login" /\ result'.msg # "PyMongoError")
    => LET email == result'.arg[1]
           password == result'.arg[2]
           filed == {users[i] : i \in UsersWithEmail(email)}
           active == {u \in filed : u.active}
       IN  /\ filed = {} => result'.msg = "NotFound" /\ session_user' = <<>>
           /\ (filed # {} /\ active = {})
                  => result'.msg = "NotFound" /\ session_user' = <<>>
           /\ (active # {} /\ \A u \in active : WrongPassword(u, password))
                  => result'.msg = "InvalidCredentials" /\ session_user' = <<>>
           /\ ~result'.raised

\* C2: a login (the store answering) fails with NotFound when no user has
\* the normalized email, with NotFound when the user with that email is
\* inactive, and with InvalidCredentials when an active user exists whose
\* stored hash the password does not verify against; the session stays
\* anonymous in each case.
C2_LoginFailures == [][C2_LoginStep]_vars

\* a login for the deactivated account "a" answered NotFound, in a directory
\* that also holds an active account
C2_Witness ==
    /\ \E i \in 1..Len(users) : users[i].email = <<"a">> /\ ~users[i].active
    /\ \E i \in 1..Len(users) : users[i].active
    /\ result.op = "login" /\ normalize(result.arg[1]) = <<"a">>
    /\ result.msg = "NotFound" /\ ~result.raised
    /\ session_user = <<>>

(***************************************************************************)
(* Properties of the credential hasher (SpecHasher).                       *)
(***************************************************************************)
\* C3 as stated: for every password and every salt, also one containing
\* "$", verify(p, hash(p, s)) is true and verify(p2, hash(p1, s)) is false
\* for p2 different from p1.
C3_AnySalt ==
    (hasher.origin = "hash" /\ hasher.tried)
    => /\ ~hasher.verdict.raised
       /\ hasher.verdict.value = (hasher.attempt = hasher.password)

\* C3 amended: for every password p and every salt s without "$",
\* verify(p, hash(p, s)) is true; for every salt s and p2 different from p1,
\* verify(p2, hash(p1, s)) is false.
C3_DollarFreeSalt ==
    (hasher.origin = "hash" /\ hasher.tried)
    => /\ ~hasher.verdict.raised
       /\ (hasher.attempt = hasher.password /\ "$" \notin Chars(hasher.salt))
             => hasher.verdict.value
       /\ hasher.attempt # hasher.password => ~hasher.verdict.value

\* a password containing "$" verified against its own hash
C3_Witness ==
    /\ hasher.origin = "hash" /\ hasher.tried
    /\ hasher.salt = <<"1", "f">>
    /\ hasher.password = <<"p", "$">> /\ hasher.attempt = <<"p", "$">>
    /\ hasher.verdict.value

\* a stored value with no "$" or with more than one
Malformed(stored) == Cardinality({i \in 1..Len(stored) : stored[i] = "$"}) # 1

\* C4: verify never raises, and returns false for every stored value with
\* zero "$" (the empty string of a record without password_hash included)
\* or with two or more.
C4_MalformedIsFalse ==
    hasher.tried
    => /\ ~hasher.verdict.raised
       /\ Malformed(hasher.stored) => ~hasher.verdict.value

\* the empty stored value of a users document, verified
C4_Witness ==
    /\ hasher.origin = "stored" /\ hasher.tried
    /\ hasher.stored = <<>>
    /\ hasher.verdict = [raised |-> FALSE, value |-> FALSE]

(***************************************************************************)
(* Properties of the catalog and the admin panel (SpecCatalog).            *)
(***************************************************************************)
\* the session is that of an administrator: the allow-list holds "b" only
AdminSession == session_user # <<>> /\ lower(session_user[1].email) \in {<<"b">>}

C5_Step ==
    /\ result'.op = "listActive"
         => /\ courses' = courses
            /\ (result'.msg = "SeedOnError" \/ \A c \in Range(courses) : ~c.ativo)
                 => /\ result'.items = SEED_COURSES
                    /\ Len(result'.items) > 0
    /\ (result'.op = "listAll" /\ courses = <<>>
          /\ result'.msg \notin {"Unauthorized", "PyMongoError"})
         => /\ result'.msg = "NoCourses"
            /\ result'.items = <<>>
            /\ courses' = courses

\* C5: the public listing returns the non-empty built-in list whenever the
\* courses query fails or no persisted course is active, and writes nothing
\* to the courses collection; the admin listing of an empty collection is
\* empty.
C5_SeedFallback == [][C5_Step]_vars

\* the query failed on a catalog holding an active course: the built-in
\* list was returned and the catalog is as it was
C5_Witness ==
    /\ result.op = "listActive" /\ result.msg = "SeedOnError"
    /\ result.items = SEED_COURSES
    /\ \E c \in Range(courses) : c.ativo

\* the ordem of the persisted course with the given _id
OrdemOf(id) == (CHOOSE c \in Range(courses) : c.id = id).ordem

DefaultX(typed) ==
    /\ typed.nome = "X" /\ typed.tag = "" /\ typed.preco = ""
    /\ typed.ordem = 0 /\ typed.ativo

\* the admin listing follows the creation of a course from DefaultX
ListedAfterCreateX ==
    /\ result.op = "listAll" /\ result.msg = "Listed"
    /\ result.arg.op = "create" /\ result.arg.msg = "Created"
    /\ DefaultX(result.arg.arg)

\* C7 as stated: after create with nome "X" and the defaults, listAll()
\* contains exactly one course named "X", with ativo = true and ordem = 0.
C7_ExactlyOneX ==
    ListedAfterCreateX
    => LET named == {k \in 1..Len(result.items) : result.items[k].nome = "X"}
       IN  /\ Cardinality(named) = 1
           /\ \A k \in named : result.items[k].ativo /\ result.items[k].ordem = 0

\* C7 amended: after create with nome "X" and the defaults, listAll()
\* contains the created course exactly once, named "X" with ativo = true and
\* ordem = 0, next to every course named "X" persisted before: the courses
\* named "X" are one more than those persisted before the create.
C7_OneMoreX ==
    ListedAfterCreateX
    => LET id == result.arg.arg.id
           mine == {k \in 1..Len(result.items) : result.src[k] = id}
           named == {k \in 1..Len(result.items) : result.items[k].nome = "X"}
           before == {c \in Range(courses) : c.nome = "X" /\ c.id # id}
       IN  /\ Cardinality(mine) = 1
           /\ \A k \in mine : /\ result.items[k].nome = "X"
                              /\ result.items[k].ativo
                              /\ result.items[k].ordem = 0
           /\ Cardinality(named) = 1 + Cardinality(before)

\* the created course is the only one named "X" in the listing
C7_Witness ==
    /\ ListedAfterCreateX
    /\ Cardinality({k \in 1..Len(result.items) : result.items[k].nome = "X"}) = 1
    /\ result.items[1].ativo /\ result.items[1].ordem = 0

C8_Step ==
    (result'.op = "create" /\ result'.msg # "Unauthorized" /\ result'.arg.nome = "")
    => /\ courses' = courses
       /\ result'.msg = "ValidationError"

\* C8: create with an empty nome leaves the courses collection as it was,
\* whatever the other fields, and answers ValidationError.
C8_EmptyNomeRejected == [][C8_Step]_vars

\* an administrator submitted the form without a name on a catalog that
\* holds a course
C8_Witness ==
    /\ result.op = "create" /\ result.msg = "ValidationError"
    /\ result.arg.nome = "" /\ result.arg.tag = "T"
    /\ AdminSession
    /\ courses # <<>>

AdminOps == {"listAll", "create", "setActive", "delete"}

C10_Step ==
    /\ courses' # courses => AdminSession
    /\ result'.op \in AdminOps
         => IF AdminSession
            THEN result'.msg # "Unauthorized"
            ELSE /\ result'.msg = "Unauthorized"
                 /\ result'.items = <<>>
                 /\ courses' = courses

\* C10: an admin operation (listAll, create, setActive, delete) takes effect
\* only when the session identity is present and its email is on the
\* allow-list; otherwise it is refused as Unauthorized and the courses
\* collection is unchanged.
C10_AdminOnly == [][C10_Step]_vars

\* the logged-in user who is no administrator was refused a delete on a
\* catalog that holds a course
C10_Witness ==
    /\ session_user # <<>> /\ session_user[1].email = <<"a">>
    /\ result.op = "delete" /\ result.msg = "Unauthorized"
    /\ courses # <<>>

(***************************************************************************)
(* Properties of the enrollment intake (SpecIntake).                       *)
(***************************************************************************)
C9_Step ==
    /\ (result'.op = "submitEnrollment" /\ session_user = <<>>)
         => result'.msg = "Unauthenticated" /\ inscricoes' = inscricoes
    /\ inscricoes' # inscricoes
         => /\ session_user # <<>>
            /\ Len(inscricoes') = Len(inscricoes) + 1
            /\ SubSeq(inscricoes', 1, Len(inscricoes)) = inscricoes
            /\ LET d == inscricoes'[Len(inscricoes')]
                   user == session_user[1]
               IN  /\ d.user_id = user._id
                   /\ d.user_name = user.name
                   /\ d.user_email = user.email
                   /\ \E u \in Range(users) :
                        /\ d.user_id = str_id(u.id)
                        /\ d.user_name = u.name
                        /\ d.user_email = u.email

\* C9: submitEnrollment without a session identity answers Unauthenticated
\* and leaves the inscricoes collection unchanged; a record is inserted only
\* when a session identity exists and carries its id, name and email.
C9_EnrollmentNeedsSession == [][C9_Step]_vars

\* after an enrollment and a logout, an anonymous attempt was refused and
\* the collection still holds the one record
C9_Witness ==
    /\ session_user = <<>>
    /\ result.op = "submitEnrollment" /\ result.msg = "Unauthenticated"
    /\ Len(inscricoes) = 1

(***************************************************************************)
(* Properties of the notifications (SpecNotify).                           *)
(***************************************************************************)
\* the attempts recorded are the notification to the address given and then
\* the one to the administrators
BothAttempted(mail, to) ==
    /\ Len(mail) = 2
    /\ mail[1].to = OneAddress(to)
    /\ mail[2].to = Addresses(ADMIN_EMAILS)

C11_Step ==
    /\ (result'.op = "register"
          /\ result'.msg \notin {"PasswordMismatch", "MissingFields", "PyMongoError"})
         => IF UsersWithEmail(result'.arg) # {}
            THEN result'.msg = "DuplicateAccount" /\ users' = users
            ELSE /\ result'.msg = "Registered" /\ ~result'.raised
                 /\ Len(users') = Len(users) + 1
                 /\ SubSeq(users', 1, Len(users)) = users
                 /\ LET u == users'[Len(users')]
                    IN  /\ u.email = normalize(result'.arg)
                        /\ u.active /\ u.has_password_hash
                        /\ \E salt \in RandomSalts :
                             u.password_hash = hash_password(<<"p">>, salt)
                 /\ BothAttempted(result'.mail, normalize(result'.arg))
    /\ (result'.op = "submitLead" /\ result'.msg # "PyMongoError")
         => /\ result'.msg = "LeadSaved" /\ ~result'.raised
            /\ leads' = Append(leads, LeadDoc("Ana", result'.arg))
            /\ BothAttempted(result'.mail, result'.arg)

\* C11: whatever becomes of the two notifications (disabled, sent, failed in
\* transport, failed before it), register (the store answering) returns
\* Registered and leaves the one new user record, or DuplicateAccount and
\* no record; submitLead leaves the one new lead record; and the
\* notification to the administrators is attempted whatever became of the
\* first one.
C11_NotificationIndependence == [][C11_Step]_vars

\* a registration succeeded although the welcome notification failed in
\* transport, and the notification to the administrators was then sent
C11_Witness ==
    /\ result.op = "register" /\ result.msg = "Registered"
    /\ Len(result.mail) = 2
    /\ result.mail[1].outcome = "swallowed"
    /\ result.mail[2].outcome = "sent"
    /\ Len(users) = 1

\* C12: send(recipients, subject, body) never raises to its caller, whatever
\* the configuration and the input.
C12_SendNeverRaises == result.op = "send" => ~result.raised

\* C13: no operation lets an exception leave its handler: every failure,
\* one of the store during register or login included, is a result shown
\* to the user.
C13_NoEscape == ~result.raised

(***************************************************************************)
(* Properties of the session (SpecAccounts).                               *)
(***************************************************************************)
\* the session identity is the projection of a stored user
SessionIsProjection ==
    session_user # <<>>
    => /\ DOMAIN session_user[1] = {"name", "email", "_id"}
       /\ \E u \in Range(users) : session_user[1] = Identity(u)

\* C14 as stated: a successful login returns the projection {name, email,
\* id} and nothing else of the stored record, and the session identity
\* holds exactly name, email and id.
C14_LoginReturnsProjection ==
    /\ (result.op = "login" /\ result.msg = "LoggedIn")
         => DOMAIN result.items[1] = {"name", "email", "id"}
    /\ SessionIsProjection

\* C14 amended: a successful login_user returns the whole stored record of
\* the user (password_hash and active included), of which the shell keeps
\* name, email and the id as text: in every reachable state the session
\* identity holds exactly name, email and _id of a stored user and never
\* the password_hash.
C14_SessionProjection ==
    /\ (result.op = "login" /\ result.msg = "LoggedIn")
         => /\ result.items[1] \in Range(users)
            /\ session_user = <<Identity(result.items[1])>>
    /\ SessionIsProjection
    /\ session_user # <<>> => "password_hash" \notin DOMAIN session_user[1]

\* a login succeeded: what login_user returned carries the password_hash,
\* the session does not
C14_Witness ==
    /\ result.op = "login" /\ result.msg = "LoggedIn"
    /\ "password_hash" \in DOMAIN result.items[1]
    /\ result.items[1].password_hash # <<>>
    /\ session_user # <<>>

\* the user a login with these inputs authenticates
Authenticates(u, email, password) ==
    /\ u.active
    /\ u.email = normalize(email)
    /\ verify_password(password, get_password_hash(u)).value

C16_Step ==
    /\ session_user' # session_user
         => \/ /\ session_user = <<>>
               /\ result'.op = "login" /\ result'.msg = "LoggedIn"
               /\ \E u \in Range(users) :
                    /\ Authenticates(u, result'.arg[1], result'.arg[2])
                    /\ session_user' = <<Identity(u)>>
            \/ /\ session_user # <<>>
               /\ result'.op = "logout"
               /\ session_user' = <<>>
    /\ (result'.op = "login" /\ result'.msg # "LoggedIn")
         => session_user = <<>> /\ session_user' = <<>>
    /\ result'.op = "register" => session_user = <<>> /\ session_user' = <<>>
    /\ result'.op = "logout" => session_user # <<>> /\ session_user' = <<>>
    /\ session_user # <<>> => result'.op \notin {"login", "register"}

\* C16: the session starts Anonymous; it becomes Authenticated only by a
\* successful login and then holds the identity of the user who logged in;
\* a failed login and a registration leave it Anonymous; logout returns it
\* to Anonymous; while Authenticated neither login nor register is invoked,
\* so the identity changes only by logout.
C16_SessionMachine == (session_user = <<>>) /\ [][C16_Step]_vars

\* Anonymous again after a login and a logout
C16_Witness ==
    /\ session_user = <<>>
    /\ result.op = "logout"
    /\ \E u \in Range(users) : u.active

(***************************************************************************)
(* Properties of concurrent registrations (SpecRace).                      *)
(***************************************************************************)
\* the active users filed under the email an input normalizes to, in the
\* order of their insertion
ActiveWithEmail(email) ==
    SelectSeq(users, LAMBDA u : u.email = normalize(email) /\ u.active)

C15_Step ==
    /\ \A r \in Requests :
         (pending[r].pc = "checked" /\ pending'[r].pc = "idle"
            /\ result'.msg # "PyMongoError")
           => /\ result'.msg = "Registered"
              /\ Len(users') = Len(users) + 1
              /\ users'[Len(users')].email = normalize(pending[r].email)
    /\ (result'.op = "login" /\ Len(ActiveWithEmail(result'.arg[1])) >= 1)
         => LET filed == ActiveWithEmail(result'.arg[1])
                password == result'.arg[2]
            IN  IF verify_password(password, get_password_hash(filed[1])).value
                THEN /\ result'.msg = "LoggedIn"
                     /\ session_user' = <<Identity(filed[1])>>
                ELSE /\ result'.msg = "InvalidCredentials"
                     /\ session_user' = <<>>

\* C15: a registration that has passed the existence check inserts its
\* record whatever has been inserted since, so that two interleaved
\* registrations of one normalized email leave two records; a login for an
\* email held by several records is decided by one of them alone, the first
\* inserted: its password logs in as that record, the password of any
\* other record is refused.
C15_RaceDuplicates == [][C15_Step]_vars

\* two records hold the same email with different passwords, and a login
\* with the password of the second was refused
C15_Witness ==
    /\ Len(users) = 2
    /\ users[1].email = users[2].email
    /\ result.op = "login" /\ result.msg = "InvalidCredentials"
    /\ verify_password(result.arg[2], users[2].password_hash).value
    /\ ~verify_password(result.arg[2], users[1].password_hash).value

(***************************************************************************)
(* Properties of the management panel (SpecCatalog).                       *)
(***************************************************************************)
C19_Step ==
    /\ (result'.op = "setActive" /\ result'.msg = "Updated")
         => LET chosen == result'.arg[1]
                value == result'.arg[3]
            IN  /\ Len(courses') = Len(courses)
                /\ \A i \in 1..Len(courses) :
                     courses'[i] = IF courses[i].id = chosen
                                   THEN [courses[i] EXCEPT !.ativo = value]
                                   ELSE courses[i]
    /\ (result'.op = "delete" /\ result'.msg = "Deleted")
         => LET chosen == result'.arg[1]
            IN  \A c \in Range(courses) : (c \in Range(courses')) = (c.id # chosen)

\* C19: an activate, deactivate or delete applied to an entry chosen from
\* the listing changes the course with the id of that entry and leaves
\* every other course as it was, also when two courses have the same nome
\* and the same tag.
C19_ChosenEntryTargeted == [][C19_Step]_vars

(***************************************************************************)
(* Properties of pre-enrollments under catalog changes (SpecSnapshot).     *)
(***************************************************************************)
\* the _id values of the persisted courses
CourseIds(col) == {c.id : c \in Range(col)}

\* every persisted course has an _id that was issued
C17_IdsIssued == CourseIds(courses) \subseteq 1..oids

C17_Step ==
    /\ Len(inscricoes') >= Len(inscricoes)
    /\ SubSeq(inscricoes', 1, Len(inscricoes)) = inscricoes
    /\ (result'.op \in {"create", "setActive", "delete"} \/ courses' # courses)
         => inscricoes' = inscricoes
    /\ (result'.op = "delete" /\ result'.msg = "Deleted")
         => /\ result'.arg[2] \in CourseIds(courses)
            /\ result'.arg[2] \notin CourseIds(courses')
            /\ Len(courses') = Len(courses) - 1
    /\ oids' >= oids
    /\ \A id \in 1..oids : id \notin CourseIds(courses) => id \notin CourseIds(courses')
    /\ result'.op \in {"listAll", "listActive"}
         => \A k \in 1..Len(result'.src) :
              result'.src[k] = 0 \/ result'.src[k] \in CourseIds(courses)

\* C17: a create, setActive or delete of any course leaves every persisted
\* enrollment record as it was (records are only ever added), and delete
\* removes the course document for good: its _id is not persisted again,
\* and the listings show persisted courses only (or the built-in list), so
\* it is in no later listAll or listActive.
C17_SnapshotsKept == []C17_IdsIssued /\ [][C17_Step]_vars

\* the course of an enrollment was deleted and the catalog was then listed:
\* the enrollment still carries the name, tag and price of the course
C17_Witness ==
    /\ result.op = "listAll"
    /\ result.arg.op = "delete" /\ result.arg.msg = "Deleted" /\ result.arg.arg[2] = 1
    /\ 1 \notin CourseIds(courses) /\ 1 \notin Range(result.src)
    /\ Len(inscricoes) = 1
    /\ inscricoes[1].curso_nome = "X" /\ inscricoes[1].curso_tag = "T"
    /\ inscricoes[1].curso_preco = "9"

(***************************************************************************)
(* Properties of the register/login round trip (SpecRoundTrip).            *)
(***************************************************************************)
\* the stored email and the typed one are equal after lowercasing and
\* trimming
SameEmail(stored, typed) == strip(lower(stored)) = strip(lower(typed))

\* the users filed under the typed email, in the order of their insertion
FiledUnder(typed) == SelectSeq(users, LAMBDA u : SameEmail(u.email, typed))

\* the record was registered with this password
PasswordOf(u, password) ==
    /\ u.has_password_hash
    /\ \E salt \in RandomSalts : u.password_hash = hash_password(password, salt)

\* no step changes or removes a stored user
UsersKept ==
    /\ Len(users') >= Len(users)
    /\ SubSeq(users', 1, Len(users)) = users

\* the outcome of a login with the typed inputs, for the registered user u
RoundTrip(u, password) ==
    IF PasswordOf(u, password)
    THEN /\ result'.msg = "LoggedIn"
         /\ session_user' = <<Identity(u)>>
    ELSE /\ result'.msg = "InvalidCredentials"
         /\ session_user' = <<>>

C18_AnyStep ==
    /\ UsersKept
    /\ (result'.op = "login" /\ result'.msg # "PyMongoError")
         => \A u \in Range(FiledUnder(result'.arg[1])) : RoundTrip(u, result'.arg[2])

C18_FirstStep ==
    /\ UsersKept
    /\ (result'.op = "login" /\ result'.msg # "PyMongoError"
          /\ FiledUnder(result'.arg[1]) # <<>>)
         => RoundTrip(FiledUnder(result'.arg[1])[1], result'.arg[2])

\* C18 as stated: once register(name, email, p) has succeeded, a login with
\* any email that normalizes to the registered one succeeds with p and
\* returns the identity of the registered user, and fails with
\* InvalidCredentials with any other password, after any further
\* operations; no operation changes a stored user.
C18_RoundTripAlways == [][C18_AnyStep]_vars

\* C18 amended: the same for the record that is the first stored under its
\* normalized email, which every registered record is when registrations
\* do not overlap; no operation changes a stored user.
C18_RoundTripOfFirst == [][C18_FirstStep]_vars

\* after a registration, a lead, a new course and a pre-enrollment, the one
\* registered user logged in with the email typed in capitals with a blank
C18_Witness ==
    /\ result.op = "login" /\ result.msg = "LoggedIn"
    /\ result.arg[1] = <<" ", "B">>
    /\ Len(users) = 1
    /\ session_user = <<Identity(users[1])>>
    /\ leads # <<>> /\ courses # <<>> /\ inscricoes # <<>>

====
